---- MODULE Spec2Model ----
(***************************************************************************)
(* Model of the orchestrator component App (React state + handlers) of the *)
(* Virtual-Hairstyle-AI repository and of the outcomes of its two remote   *)
(* service calls, analyzeFaceShape and generateHairstyleImage.             *)
(*                                                                         *)
(* React state cells are the variables; every handler is one action for    *)
(* its synchronous part and one action per continuation that runs after an *)
(* await (file read, analysis call, generation call, Promise.allSettled).  *)
(* A continuation sees the values its closure captured when the handler    *)
(* was invoked, and writes through the setters to the current state.       *)
(***************************************************************************)
EXTENDS Naturals, Sequences, FiniteSets, TLC

\* ---------------------------------------------------------------- bounds
\* asynchronous operations the user starts in one behaviour: file reads
\* (processFile), analysis calls and accepted preference selections together
MaxEvents == 6

\* ------------------------------------------------------------ value sets
INITIAL == "INITIAL"
IMAGE_UPLOADED == "IMAGE_UPLOADED"
ANALYZING == "ANALYZING"
ANALYZED == "ANALYZED"
GENERATING == "GENERATING"
COMPLETE == "COMPLETE"
ERROR == "ERROR"

AppState == {INITIAL, IMAGE_UPLOADED, ANALYZING, ANALYZED, GENERATING, COMPLETE, ERROR}

\* null of a string-valued cell, of the image cell, of an object-valued cell
NullStr == "<null>"
NoImage == 0
Null == << >>
Some(x) == << x >>

\* the values of the selectable preferences
haircutPreferences == {"Sedang", "Pendek", "Super Pendek"}

\* user-facing messages
FileErrorMsg == "Tidak dapat memproses file gambar. Silakan coba lagi."
UnknownAnalysisMsg == "Terjadi kesalahan yang tidak diketahui saat analisis."
EmptyResponseMsg == "AI mengembalikan respons kosong. Coba foto lain."
MalformedResponseMsg == "AI mengembalikan data dalam format yang tidak terduga. Silakan coba lagi."
AnalysisFailedMsg == "Gagal menganalisis gambar. Silakan coba foto lain."
BlockedMsg == "Gagal membuat gambar karena permintaan diblokir: SAFETY. Coba gaya atau foto lain."
NoImageMsg == "AI tidak dapat menghasilkan gambar untuk gaya rambut ini. Silakan coba yang lain."
DefaultGenErrorMsg == "Gagal membuat gambar."

\* ------------------------------------------------------------- variables
VARIABLES
    appState,           \* useState<AppState>
    originalImage,      \* useState<image | null>: NoImage or the upload's number
    analysisResult,     \* useState<AnalysisResult | null>: Null or Some(record)
    haircutPreference,  \* useState<HaircutPreference | null>
    generatedImages,    \* useState<GeneratedImageState>: name -> slot
    error,              \* useState<string | null>
    showCamera,         \* useState<boolean>
    reads,              \* toBase64 file reads in flight (upload numbers)
    analyzeCalls,       \* analyzeFaceShape calls in flight
    calls,              \* generateHairstyleImage calls in flight
    runs,               \* the invocations of handlePreferenceSelect suspended at their await
    uploads,            \* number of processFile invocations so far
    analyzed,           \* number of analyzeFaceShape calls so far
    selected,           \* number of accepted preference selections so far
    lastOp,             \* history: the handler or continuation that last touched the workflow
    service             \* a call of geminiService taken alone: its response and how it ends

stateVars == << appState, originalImage, analysisResult, haircutPreference,
                generatedImages, error >>
vars == << appState, originalImage, analysisResult, haircutPreference,
           generatedImages, error, showCamera, reads, analyzeCalls, calls, runs,
           uploads, analyzed, selected, lastOp, service >>

\* ------------------------------------------------------------- helpers
\* { ...prev, [k]: v }
Put(m, k, v) == [x \in (DOMAIN m) \cup {k} |-> IF x = k THEN v ELSE m[x]]

\* {} of GeneratedImageState
EmptyImages == [x \in {} |-> Null]

PendingSlot == [url |-> Null, error |-> NullStr, loading |-> TRUE]

Range(s) == {s[i] : i \in DOMAIN s}

\* initialImageStates: forEach over hairstyles, one pending slot per name
InitialImageStates(hairstyles) ==
    [n \in Range(hairstyles) |-> PendingSlot]

\* err.message || fallback
OrElse(message, fallback) == IF message = "" THEN fallback ELSE message

\* The results analyzeFaceShape can return: any decoded object with a truthy
\* faceShape and a truthy hairstyles value (an empty array is truthy).
\* The hairstyles arrays exercised: empty, one suggestion, two suggestions
\* with distinct names, two suggestions sharing a name (the code reads a name
\* only as a key of the outcome mapping).
HairstyleLists == { << >>, << "Bob" >>, << "Bob", "Pixie" >>, << "Bob", "Bob" >> }
AnalysisResults ==
    [faceShape : {"Oval"}, originalHairLength : {"Long"}, hairstyles : HairstyleLists]

\* The messages of the errors analyzeFaceShape can throw.
AnalysisErrors == {EmptyResponseMsg, MalformedResponseMsg, AnalysisFailedMsg}

\* The message of an error generateHairstyleImage throws; the handler copies
\* whatever message it gets, so one message stands for all of them.
GenerationErrors == {BlockedMsg}

\* as IssueCalls, but reading the preference from the state cell, which still
\* holds the previous selection inside the handler
IssueCallsStalePreference(r, image, analysis, preference) ==
    { [run |-> r, idx |-> i,
       image |-> image,
       hairstyleName |-> analysis.hairstyles[i],
       originalHairLength |-> analysis.originalHairLength,
       preference |-> haircutPreference] : i \in DOMAIN analysis.hairstyles }

\* .map over hairstyles: one generateHairstyleImage call per element
IssueCalls(r, image, analysis, preference) ==
    { [run |-> r, idx |-> i,
       image |-> image,
       hairstyleName |-> analysis.hairstyles[i],
       originalHairLength |-> analysis.originalHairLength,
       preference |-> preference] : i \in DOMAIN analysis.hairstyles }

\* Promise.allSettled of run r has resolved and its continuation has not run
\* yet: a pending microtask, which runs before any other event is handled.
Settled(run) == \A i \in DOMAIN run.promises : run.promises[i] # "pending"
JoinReady(r) == Settled(runs[r])
JoinPending == \E r \in DOMAIN runs : JoinReady(r)

\* the suspended invocations without r
Without(m, r) == [x \in (DOMAIN m) \ {r} |-> m[x]]

\* no call of geminiService is looked at on its own
ServiceIdle == [fn |-> "none"]

\* which view is rendered: analysisResult ? post-analysis : pre-analysis
PostAnalysisView == analysisResult # Null
PreAnalysisView == analysisResult = Null

\* ------------------------------------------------------------------ Init
Init ==
    /\ appState = INITIAL
    /\ originalImage = NoImage
    /\ analysisResult = Null
    /\ haircutPreference = NullStr
    /\ generatedImages = EmptyImages
    /\ error = NullStr
    /\ showCamera = FALSE
    /\ reads = {}
    /\ analyzeCalls = {}
    /\ calls = {}
    /\ runs = << >>
    /\ uploads = 0
    /\ analyzed = 0
    /\ selected = 0
    /\ lastOp = "init"
    /\ service = ServiceIdle

\* --------------------------------------------------------------- actions
\* as ResetState, without setGeneratedImages({})
ResetStateKeepsImages ==
    /\ appState' = INITIAL
    /\ originalImage' = NoImage
    /\ analysisResult' = Null
    /\ haircutPreference' = NullStr
    /\ generatedImages' = generatedImages
    /\ error' = NullStr
    /\ runs' = [r \in DOMAIN runs |->
                  IF runs[r].resetIn = ""
                  THEN [runs[r] EXCEPT !.resetIn =
                            IF appState = GENERATING THEN GENERATING ELSE "other"]
                  ELSE runs[r]]

\* the six setter calls of handleReset; every suspended run records the state
\* in which its first reset found it
ResetState ==
    /\ appState' = INITIAL
    /\ originalImage' = NoImage
    /\ analysisResult' = Null
    /\ haircutPreference' = NullStr
    /\ generatedImages' = EmptyImages
    /\ error' = NullStr
    /\ runs' = [r \in DOMAIN runs |->
                  IF runs[r].resetIn = ""
                  THEN [runs[r] EXCEPT !.resetIn =
                            IF appState = GENERATING THEN GENERATING ELSE "other"]
                  ELSE runs[r]]

\* "Mulai Lagi": rendered in the pre-analysis view unless INITIAL, and always
\* in the post-analysis view
handleReset ==
    /\ ~JoinPending
    /\ PostAnalysisView \/ appState # INITIAL
    /\ ResetState
    /\ lastOp' = "handleReset"
    /\ UNCHANGED << showCamera, reads, analyzeCalls, calls, uploads, analyzed, selected, service >>

\* processFile up to its await: handleReset(), then toBase64(file) starts
processFile ==
    /\ uploads + analyzed + selected < MaxEvents
    /\ ResetState
    /\ uploads' = uploads + 1
    /\ reads' = reads \cup {uploads + 1}
    /\ lastOp' = "processFile"
    /\ UNCHANGED << analyzeCalls, calls, analyzed, selected, service >>

\* the file input lives in the pre-analysis view
handleFileChange ==
    /\ ~JoinPending
    /\ PreAnalysisView
    /\ processFile
    /\ UNCHANGED showCamera

\* "Ambil Selfie" in the pre-analysis view
openCamera ==
    /\ ~JoinPending
    /\ PreAnalysisView
    /\ ~showCamera
    /\ showCamera' = TRUE
    /\ UNCHANGED << stateVars, reads, analyzeCalls, calls, runs, uploads, analyzed, selected, lastOp, service >>

\* onCancel of the camera modal
cancelCamera ==
    /\ ~JoinPending
    /\ showCamera
    /\ showCamera' = FALSE
    /\ UNCHANGED << stateVars, reads, analyzeCalls, calls, runs, uploads, analyzed, selected, lastOp, service >>

\* the camera modal is rendered in every view while showCamera holds
handleCameraCapture ==
    /\ ~JoinPending
    /\ showCamera
    /\ showCamera' = FALSE
    /\ processFile

\* toBase64 resolved: the try branch of processFile
processFileDone(f) ==
    /\ ~JoinPending
    /\ f \in reads
    /\ reads' = reads \ {f}
    /\ originalImage' = f
    /\ appState' = IMAGE_UPLOADED
    /\ lastOp' = "processFileDone"
    /\ UNCHANGED << analysisResult, haircutPreference, generatedImages, error,
                    showCamera, analyzeCalls, calls, runs, uploads, analyzed, selected, service >>

\* toBase64 rejected: the catch branch of processFile
processFileFailed(f) ==
    /\ ~JoinPending
    /\ f \in reads
    /\ reads' = reads \ {f}
    /\ error' = FileErrorMsg
    /\ appState' = ERROR
    /\ lastOp' = "processFileFailed"
    /\ UNCHANGED << originalImage, analysisResult, haircutPreference, generatedImages,
                    showCamera, analyzeCalls, calls, runs, uploads, analyzed, selected, service >>

\* the analyze button: pre-analysis view, appState === IMAGE_UPLOADED
handleAnalyzeClick ==
    /\ ~JoinPending
    /\ PreAnalysisView
    /\ appState = IMAGE_UPLOADED
    /\ uploads + analyzed + selected < MaxEvents
    /\ lastOp' = "handleAnalyzeClick"
    /\ IF originalImage = NoImage
       THEN UNCHANGED << stateVars, analyzeCalls, analyzed >>
       ELSE /\ appState' = ANALYZING
            /\ error' = NullStr
            /\ haircutPreference' = NullStr
            /\ generatedImages' = EmptyImages
            /\ analyzed' = analyzed + 1
            /\ analyzeCalls' = analyzeCalls \cup {[id |-> analyzed + 1, image |-> originalImage]}
            /\ UNCHANGED << originalImage, analysisResult >>
    /\ UNCHANGED << showCamera, reads, calls, runs, uploads, selected, service >>

\* analyzeFaceShape resolved: the try branch of handleAnalyzeClick
analyzeDone(c, result) ==
    /\ ~JoinPending
    /\ c \in analyzeCalls
    /\ analyzeCalls' = analyzeCalls \ {c}
    /\ analysisResult' = Some(result)
    /\ appState' = ANALYZED
    /\ lastOp' = "analyzeDone"
    /\ UNCHANGED << originalImage, haircutPreference, generatedImages, error,
                    showCamera, reads, calls, runs, uploads, analyzed, selected, service >>

\* as analyzeFailed, without setError
analyzeFailedDropsMessage(c, message) ==
    /\ ~JoinPending
    /\ c \in analyzeCalls
    /\ analyzeCalls' = analyzeCalls \ {c}
    /\ appState' = ERROR
    /\ lastOp' = "analyzeFailed"
    /\ UNCHANGED << originalImage, analysisResult, haircutPreference, generatedImages, error,
                    showCamera, reads, calls, runs, uploads, analyzed, selected, service >>

\* analyzeFaceShape rejected: the catch branch of handleAnalyzeClick
analyzeFailed(c, message) ==
    /\ ~JoinPending
    /\ c \in analyzeCalls
    /\ analyzeCalls' = analyzeCalls \ {c}
    /\ error' = OrElse(message, UnknownAnalysisMsg)
    /\ appState' = ERROR
    /\ lastOp' = "analyzeFailed"
    /\ UNCHANGED << originalImage, analysisResult, haircutPreference, generatedImages,
                    showCamera, reads, calls, runs, uploads, analyzed, selected, service >>

\* the guard of handlePreferenceSelect
SelectAccepted ==
    ~(originalImage = NoImage \/ analysisResult = Null \/ appState = GENERATING)

\* a preference button: post-analysis view, disabled while GENERATING.
\* Up to the await: set the preference, GENERATING and the pending slots,
\* then issue the calls.
handlePreferenceSelect(preference) ==
    /\ ~JoinPending
    /\ PostAnalysisView
    /\ appState # GENERATING
    /\ SelectAccepted
    /\ uploads + analyzed + selected < MaxEvents
    /\ LET r == selected + 1
           analysis == analysisResult[1]
       IN /\ haircutPreference' = preference
          /\ appState' = GENERATING
          /\ generatedImages' = InitialImageStates(analysis.hairstyles)
          /\ calls' = calls \cup IssueCalls(r, originalImage, analysis, preference)
          /\ runs' = Put(runs, r,
                [names |-> analysis.hairstyles,
                 promises |-> [i \in DOMAIN analysis.hairstyles |-> "pending"],
                 resetIn |-> "",
                 startedIn |-> IF appState = COMPLETE THEN COMPLETE ELSE "other"])
          /\ selected' = r
    /\ lastOp' = "handlePreferenceSelect"
    /\ UNCHANGED << originalImage, analysisResult, error, showCamera, reads,
                    analyzeCalls, uploads, analyzed, service >>

\* a preference button pressed when the guard returns early
handlePreferenceSelectIgnored ==
    /\ ~JoinPending
    /\ PostAnalysisView
    /\ appState # GENERATING
    /\ ~SelectAccepted
    /\ lastOp' = "handlePreferenceSelectIgnored"
    /\ UNCHANGED << stateVars, showCamera, reads, analyzeCalls, calls, runs,
                    uploads, analyzed, selected, service >>

\* as WriteSlot, but spreading the previous slot of the name under the new one
\* when the new one carries no url: { ...prev[name], error, loading }
WriteSlotOverPrevious(c, slot) ==
    generatedImages' =
        Put(generatedImages, c.hairstyleName,
            IF slot.url = Null /\ c.hairstyleName \in DOMAIN generatedImages
            THEN [slot EXCEPT !.url = generatedImages[c.hairstyleName].url]
            ELSE slot)

\* setGeneratedImages(prev => ({ ...prev, [style.name]: slot }))
WriteSlot(c, slot) ==
    generatedImages' = Put(generatedImages, c.hairstyleName, slot)

\* the slot the .then callback stores for a result's imageUrl
ResolvedSlot(imageUrl) == [url |-> Some(imageUrl), error |-> NullStr, loading |-> FALSE]

\* the slot the .catch callback stores for an error's message
RejectedSlot(message) ==
    [url |-> Null, error |-> OrElse(message, DefaultGenErrorMsg), loading |-> FALSE]

\* generateHairstyleImage resolved: the .then callback
generateDone(c) ==
    /\ ~JoinPending
    /\ c \in calls
    /\ calls' = calls \ {c}
    /\ WriteSlot(c, ResolvedSlot(<< c.run, c.idx >>))
    /\ runs' = [runs EXCEPT ![c.run].promises[c.idx] = "fulfilled"]
    /\ lastOp' = "generateDone"
    /\ UNCHANGED << appState, originalImage, analysisResult, haircutPreference, error,
                    showCamera, reads, analyzeCalls, uploads, analyzed, selected, service >>

\* generateHairstyleImage rejected: the .catch callback
generateFailed(c, message) ==
    /\ ~JoinPending
    /\ c \in calls
    /\ calls' = calls \ {c}
    /\ WriteSlot(c, RejectedSlot(message))
    /\ runs' = [runs EXCEPT ![c.run].promises[c.idx] = "rejected"]
    /\ lastOp' = "generateFailed"
    /\ UNCHANGED << appState, originalImage, analysisResult, haircutPreference, error,
                    showCamera, reads, analyzeCalls, uploads, analyzed, selected, service >>

\* the continuation of await Promise.allSettled(generationPromises)
allSettled(r) ==
    /\ r \in DOMAIN runs
    /\ JoinReady(r)
    /\ appState' = COMPLETE
    /\ runs' = Without(runs, r)
    /\ lastOp' = "allSettled"
    /\ UNCHANGED << originalImage, analysisResult, haircutPreference, generatedImages,
                    error, showCamera, reads, analyzeCalls, calls, uploads, analyzed, selected, service >>

Next ==
    \/ handleReset
    \/ handleFileChange
    \/ openCamera
    \/ cancelCamera
    \/ handleCameraCapture
    \/ \E f \in reads : processFileDone(f)
    \/ \E f \in reads : processFileFailed(f)
    \/ handleAnalyzeClick
    \/ \E c \in analyzeCalls, result \in AnalysisResults : analyzeDone(c, result)
    \/ \E c \in analyzeCalls, message \in AnalysisErrors : analyzeFailed(c, message)
    \/ \E preference \in haircutPreferences : handlePreferenceSelect(preference)
    \/ handlePreferenceSelectIgnored
    \/ \E c \in calls : generateDone(c)
    \/ \E c \in calls, message \in GenerationErrors : generateFailed(c, message)
    \/ \E r \in DOMAIN runs : allSettled(r)

Spec == Init /\ [][Next]_vars

\* some generation call in flight settles, either way
generationSettles ==
    \E c \in calls :
        generateDone(c) \/ \E message \in GenerationErrors : generateFailed(c, message)

\* The continuation of an await whose promise has resolved is a queued
\* microtask: the event loop runs it. Nothing makes a remote call settle.
FairSpec == Spec /\ WF_vars(\E r \in DOMAIN runs : allSettled(r))

\* ============================================================ geminiService
\* ----------------------------------------------------- JavaScript strings
\* the characters String.prototype.trim strips (those the samples use)
Whitespace == {" ", "\t", "\n", "\r"}

UpperLetters == "ABCDEFGHIJKLMNOPQRSTUVWXYZ"
LowerLetters == "abcdefghijklmnopqrstuvwxyz"

CharAt(s, i) == SubSeq(s, i, i)

\* s.trim()
RECURSIVE TrimStart(_)
TrimStart(s) ==
    IF Len(s) > 0 /\ CharAt(s, 1) \in Whitespace
    THEN TrimStart(SubSeq(s, 2, Len(s)))
    ELSE s
RECURSIVE TrimEnd(_)
TrimEnd(s) ==
    IF Len(s) > 0 /\ CharAt(s, Len(s)) \in Whitespace
    THEN TrimEnd(SubSeq(s, 1, Len(s) - 1))
    ELSE s
Trim(s) == TrimEnd(TrimStart(s))

\* s.toLowerCase()
LowerChar(ch) ==
    IF \E i \in 1..Len(UpperLetters) : CharAt(UpperLetters, i) = ch
    THEN CharAt(LowerLetters, CHOOSE i \in 1..Len(UpperLetters) : CharAt(UpperLetters, i) = ch)
    ELSE ch
RECURSIVE ToLowerCase(_)
ToLowerCase(s) ==
    IF Len(s) = 0 THEN ""
    ELSE LowerChar(CharAt(s, 1)) \o ToLowerCase(SubSeq(s, 2, Len(s)))

\* s.includes(part)
Includes(s, part) ==
    \E i \in 1..(Len(s) + 1) :
        i + Len(part) - 1 <= Len(s) /\ SubSeq(s, i, i + Len(part) - 1) = part

\* ------------------------------------------------------ JavaScript values
\* a value JSON.parse can yield: its kind and, by kind, the source text of a
\* primitive, the items of an array, the << key, value >> pairs of an object
JSValue(type, text, items, fields) ==
    [type |-> type, text |-> text, items |-> items, fields |-> fields]
JSUndefined == JSValue("undefined", "undefined", << >>, << >>)
JSNull == JSValue("null", "null", << >>, << >>)
JSBoolean(text) == JSValue("boolean", text, << >>, << >>)
JSNumber(text) == JSValue("number", text, << >>, << >>)
JSString(text) == JSValue("string", text, << >>, << >>)
JSArray(items) == JSValue("array", "", items, << >>)
JSObject(fields) == JSValue("object", "", << >>, fields)

\* typeof v
TypeOf(v) == IF v.type \in {"null", "array", "object"} THEN "object" ELSE v.type

\* !v
Falsy(v) ==
    \/ v.type \in {"undefined", "null"}
    \/ v.type = "boolean" /\ v.text = "false"
    \/ v.type = "number" /\ v.text = "0"
    \/ v.type = "string" /\ v.text = ""

\* v.key, for a v that is neither null nor undefined
Member(v, key) ==
    IF \E i \in DOMAIN v.fields : v.fields[i][1] = key
    THEN v.fields[CHOOSE i \in DOMAIN v.fields : v.fields[i][1] = key][2]
    ELSE JSUndefined

\* an Error object: who created it, and its message; a thrown value that is
\* not an Error has isError = FALSE
NewError(message, by) == [isError |-> TRUE, message |-> message, createdBy |-> by]
NotAnError(by) == [isError |-> FALSE, message |-> "", createdBy |-> by]
Nothing == NotAnError("")

\* how a call ends
Return(value) == [kind |-> "return", value |-> value, thrown |-> Nothing]
Throw(thrown, novalue) == [kind |-> "throw", value |-> novalue, thrown |-> thrown]

\* ------------------------------------------------------- analyzeFaceShape
\* what ai.models.generateContent does: it resolves with a response, or it
\* rejects with a thrown value
Resolves(text) == [kind |-> "resolves", text |-> text, thrown |-> Nothing]
Rejects(thrown) == [kind |-> "rejects", text |-> Null, thrown |-> thrown]

\* the marker the catch block looks for in a message
ValidationMarker == "AI mengembalikan"

\* the message of the SyntaxError JSON.parse throws for a short text that
\* starts with a character no JSON value starts with: it quotes the text
SyntaxErrorMessage(text) ==
    "Unexpected token '" \o CharAt(text, 1) \o "', \"" \o text \o "\" is not valid JSON"

\* raw texts the empty check is about
EmptyTexts == {"", " ", "\n\t ", "null", "NULL", " Null\n", "\tnUlL "}

\* the decoded item {"name": name} of a hairstyles array
Hairstyle(name) == JSObject(<< << "name", JSString(name) >> >>)

\* JSON texts and the values JSON.parse yields for them
JsonTable ==
    { [text |-> "{\"faceShape\":\"Oval\",\"originalHairLength\":\"Long\",\"hairstyles\":[{\"name\":\"Bob\"},{\"name\":\"Pixie\"}]}",
       value |-> JSObject(<< << "faceShape", JSString("Oval") >>,
                             << "originalHairLength", JSString("Long") >>,
                             << "hairstyles", JSArray(<< Hairstyle("Bob"), Hairstyle("Pixie") >>) >> >>)],
      [text |-> " {\"faceShape\":\"Oval\",\"hairstyles\":[{\"name\":\"Bob\"}]}\n",
       value |-> JSObject(<< << "faceShape", JSString("Oval") >>,
                             << "hairstyles", JSArray(<< Hairstyle("Bob") >>) >> >>)],
      [text |-> "{\"faceShape\":\"Oval\",\"originalHairLength\":\"Long\",\"hairstyles\":[]}",
       value |-> JSObject(<< << "faceShape", JSString("Oval") >>,
                             << "originalHairLength", JSString("Long") >>,
                             << "hairstyles", JSArray(<< >>) >> >>)],
      [text |-> "{\"faceShape\":\"Oval\",\"hairstyles\":\"Bob\"}",
       value |-> JSObject(<< << "faceShape", JSString("Oval") >>,
                             << "hairstyles", JSString("Bob") >> >>)],
      [text |-> "{\"hairstyles\":[{\"name\":\"Bob\"}]}",
       value |-> JSObject(<< << "hairstyles", JSArray(<< Hairstyle("Bob") >>) >> >>)],
      [text |-> "{\"faceShape\":\"Oval\"}",
       value |-> JSObject(<< << "faceShape", JSString("Oval") >> >>)],
      [text |-> "{\"faceShape\":\"\",\"hairstyles\":[{\"name\":\"Bob\"}]}",
       value |-> JSObject(<< << "faceShape", JSString("") >>,
                             << "hairstyles", JSArray(<< Hairstyle("Bob") >>) >> >>)],
      [text |-> "{\"faceShape\":\"Oval\",\"hairstyles\":null}",
       value |-> JSObject(<< << "faceShape", JSString("Oval") >>,
                             << "hairstyles", JSNull >> >>)],
      [text |-> "{\"originalHairLength\":\"Long\"}",
       value |-> JSObject(<< << "originalHairLength", JSString("Long") >> >>)],
      [text |-> "[]", value |-> JSArray(<< >>)],
      [text |-> "[{\"name\":\"Bob\"}]", value |-> JSArray(<< Hairstyle("Bob") >>)],
      [text |-> "42", value |-> JSNumber("42")],
      [text |-> "0", value |-> JSNumber("0")],
      [text |-> "\"Oval\"", value |-> JSString("Oval")],
      [text |-> "\"\"", value |-> JSString("")],
      [text |-> "true", value |-> JSBoolean("true")],
      [text |-> "false", value |-> JSBoolean("false")] }
JsonTexts == {e.text : e \in JsonTable}

\* texts JSON.parse rejects
UndecodableTexts == {"Oval", "Maaf", "AI mengembalikan"}

RawTexts == EmptyTexts \cup JsonTexts \cup UndecodableTexts

\* JSON.parse(text), on the texts above
JSONParse(text) ==
    IF text \in JsonTexts
    THEN Return((CHOOSE e \in JsonTable : e.text = text).value)
    ELSE Throw(NewError(SyntaxErrorMessage(text), "JSON.parse"), JSUndefined)

\* what a rejected generateContent call throws
ServiceFailures ==
    { NewError("fetch failed", "service"),
      NewError("got status: 429 RESOURCE_EXHAUSTED", "service"),
      NewError("", "service"),
      NewError("503: AI mengembalikan galat sementara", "service"),
      NotAnError("service") }

\* response.text is a string or undefined
AnalysisResponses ==
    {Resolves(Null)} \cup {Resolves(Some(text)) : text \in RawTexts}
        \cup {Rejects(thrown) : thrown \in ServiceFailures}

\* as IsEmptyText, comparing with "null" without toLowerCase
IsEmptyTextCaseSensitive(jsonString) ==
    \/ jsonString = Null
    \/ jsonString[1] = ""
    \/ Trim(jsonString[1]) = ""
    \/ Trim(jsonString[1]) = "null"

\* the condition of the empty check
IsEmptyText(jsonString) ==
    \/ jsonString = Null
    \/ jsonString[1] = ""
    \/ Trim(jsonString[1]) = ""
    \/ ToLowerCase(Trim(jsonString[1])) = "null"

\* as IsMalformed, without the test of hairstyles
IsMalformedIgnoresHairstyles(result) ==
    \/ Falsy(result)
    \/ TypeOf(result) # "object"
    \/ Falsy(Member(result, "faceShape"))

\* the condition of the structure check
IsMalformed(result) ==
    \/ Falsy(result)
    \/ TypeOf(result) # "object"
    \/ Falsy(Member(result, "faceShape"))
    \/ Falsy(Member(result, "hairstyles"))

\* the try block
analyzeTry(response) ==
    IF response.kind = "rejects" THEN Throw(response.thrown, JSUndefined)
    ELSE IF IsEmptyText(response.text)
    THEN Throw(NewError(EmptyResponseMsg, "analyzeFaceShape"), JSUndefined)
    ELSE LET parsed == JSONParse(response.text[1])
         IN IF parsed.kind = "throw" THEN parsed
            ELSE IF IsMalformed(parsed.value)
            THEN Throw(NewError(MalformedResponseMsg, "analyzeFaceShape"), JSUndefined)
            ELSE Return(parsed.value)

\* the catch block
analyzeCatch(thrown) ==
    IF thrown.isError /\ Includes(thrown.message, ValidationMarker)
    THEN Throw(thrown, JSUndefined)
    ELSE Throw(NewError(AnalysisFailedMsg, "analyzeFaceShape"), JSUndefined)

analyzeFaceShape(response) ==
    LET attempt == analyzeTry(response)
    IN IF attempt.kind = "throw" THEN analyzeCatch(attempt.thrown) ELSE attempt

\* ------------------------------------------------- generateHairstyleImage
\* the HaircutPreference type
HaircutPreference == {"Rapikan", "Sedang", "Pendek"}

\* the keys of preferenceDefinitions in the first and in the second version
\* of generateHairstyleImage
preferenceDefinitions == {"Sedang", "Pendek", "Super Pendek"}
preferenceDefinitionsV2 == {"Rapikan", "Sedang", "Pendek"}

\* the cut-level lines of the prompt: the first version quotes the level and
\* looks its definition up; the second quotes the level and lists the three
\* definitions of its table
Prompt(preference) ==
    [level |-> preference,
     defined |-> IF preference \in preferenceDefinitions THEN {preference} ELSE {}]
PromptV2(preference) ==
    [level |-> preference, defined |-> preferenceDefinitionsV2]

GenerationFailedMsg == "Gagal menghasilkan gaya rambut baru. Silakan coba lagi atau pilih gaya yang berbeda."
DefaultCaption == "Ini dia tampilan baru Anda!"
\* what reading .parts of an absent content throws
TypeErrorMsg == "Cannot read properties of undefined (reading 'parts')"

\* `Gagal membuat gambar karena permintaan diblokir: ${blockReason}. ...`
BlockedMessage(blockReason) ==
    "Gagal membuat gambar karena permintaan diblokir: " \o blockReason
        \o ". Coba gaya atau foto lain."

\* a content part: inlineData and text are each present or absent
Part(inlineData, text) == [inlineData |-> inlineData, text |-> text]
InlineData(mimeType, data) == [mimeType |-> mimeType, data |-> data]
\* a part's inlineData is << >> or << InlineData >>, its text << >> or << text >>
ImagePart == Part(Some(InlineData("image/png", "iVBOR")), Null)
OtherImagePart == Part(Some(InlineData("image/jpeg", "9j4AA")), Null)
TextPart == Part(Null, Some("Potongan bob sebahu."))
EmptyTextPart == Part(Null, Some(""))
CaptionedImagePart == Part(Some(InlineData("image/png", "iVBOR")), Some("Gambar."))
Parts == {ImagePart, OtherImagePart, TextPart, EmptyTextPart, CaptionedImagePart}

PartLists ==
    {<< >>} \cup {<< p >> : p \in Parts} \cup {<< p, q >> : p \in Parts, q \in Parts}

\* a candidate: its content's parts, or no content
Candidate(content) == [content |-> content]
CandidateLists ==
    {<< >>} \cup {<< Candidate(Some(parts)) >> : parts \in PartLists}
        \cup { << Candidate(Null) >>,
               << Candidate(Some(<< TextPart >>)), Candidate(Some(<< ImagePart >>)) >>,
               << Candidate(Some(<< ImagePart >>)), Candidate(Null) >> }

\* promptFeedback?.blockReason is absent or a string
BlockReasons == {Null, Some(""), Some("SAFETY"), Some("OTHER")}

GenerationResponse(blockReason, candidates) ==
    [kind |-> "resolves", blockReason |-> blockReason, candidates |-> candidates,
     thrown |-> Nothing]
GenerationRejects(thrown) ==
    [kind |-> "rejects", blockReason |-> Null, candidates |-> Null, thrown |-> thrown]

GenerationResponses ==
    {GenerationResponse(b, Null) : b \in BlockReasons}
        \cup {GenerationResponse(b, Some(cs)) : b \in BlockReasons, cs \in CandidateLists}
        \cup {GenerationRejects(thrown) : thrown \in ServiceFailures}

NoImageResult == [imageUrl |-> "", text |-> ""]

\* the for loop over the parts, from part i on
RECURSIVE ScanParts(_, _, _, _)
ScanParts(parts, i, generatedImageUrl, generatedText) ==
    IF i > Len(parts)
    THEN [imageUrl |-> generatedImageUrl, text |-> generatedText]
    ELSE IF parts[i].inlineData # Null
    THEN ScanParts(parts, i + 1,
                   "data:" \o parts[i].inlineData[1].mimeType \o ";base64,"
                       \o parts[i].inlineData[1].data,
                   generatedText)
    ELSE IF parts[i].text # Null /\ parts[i].text[1] # ""
    THEN ScanParts(parts, i + 1, generatedImageUrl, parts[i].text[1])
    ELSE ScanParts(parts, i + 1, generatedImageUrl, generatedText)

\* as generateTry, testing the block reason only when no image was found
generateTryScansFirst(response) ==
    IF response.kind = "rejects" THEN Throw(response.thrown, NoImageResult)
    ELSE IF response.candidates # Null /\ Len(response.candidates[1]) > 0
            /\ response.candidates[1][1].content = Null
    THEN Throw(NewError(TypeErrorMsg, "runtime"), NoImageResult)
    ELSE LET scanned ==
                IF response.candidates # Null /\ Len(response.candidates[1]) > 0
                THEN ScanParts(response.candidates[1][1].content[1], 1, "", DefaultCaption)
                ELSE [imageUrl |-> "", text |-> DefaultCaption]
         IN IF scanned.imageUrl # "" THEN Return(scanned)
            ELSE IF response.blockReason # Null /\ response.blockReason[1] # ""
            THEN Throw(NewError(BlockedMessage(response.blockReason[1]),
                                "generateHairstyleImage"), NoImageResult)
            ELSE Throw(NewError(NoImageMsg, "generateHairstyleImage"), NoImageResult)

\* the try block
generateTry(response) ==
    IF response.kind = "rejects" THEN Throw(response.thrown, NoImageResult)
    ELSE IF response.blockReason # Null /\ response.blockReason[1] # ""
    THEN Throw(NewError(BlockedMessage(response.blockReason[1]), "generateHairstyleImage"),
               NoImageResult)
    ELSE IF response.candidates # Null /\ Len(response.candidates[1]) > 0
            /\ response.candidates[1][1].content = Null
    THEN Throw(NewError(TypeErrorMsg, "runtime"), NoImageResult)
    ELSE LET scanned ==
                IF response.candidates # Null /\ Len(response.candidates[1]) > 0
                THEN ScanParts(response.candidates[1][1].content[1], 1, "", DefaultCaption)
                ELSE [imageUrl |-> "", text |-> DefaultCaption]
         IN IF scanned.imageUrl = ""
            THEN Throw(NewError(NoImageMsg, "generateHairstyleImage"), NoImageResult)
            ELSE Return(scanned)

\* as generateCatch, wrapping every thrown value
generateCatchWrapsAll(thrown) ==
    Throw(NewError(GenerationFailedMsg, "generateHairstyleImage"), NoImageResult)

\* the catch block
generateCatch(thrown) ==
    IF thrown.isError
    THEN Throw(thrown, NoImageResult)
    ELSE Throw(NewError(GenerationFailedMsg, "generateHairstyleImage"), NoImageResult)

generateHairstyleImage(response) ==
    LET attempt == generateTry(response)
    IN IF attempt.kind = "throw" THEN generateCatch(attempt.thrown) ELSE attempt

\* ------------------------------------- the second version of the module
\* analyzeFaceShape of the second version: its try block
analyzeTryV2(response) ==
    IF response.kind = "rejects" THEN Throw(response.thrown, JSUndefined)
    ELSE IF \/ response.text = Null
            \/ response.text[1] = ""
            \/ Trim(response.text[1]) = ""
            \/ ToLowerCase(Trim(response.text[1])) = "null"
    THEN Throw(NewError(EmptyResponseMsg, "analyzeFaceShape"), JSUndefined)
    ELSE LET parsed == JSONParse(response.text[1])
         IN IF parsed.kind = "throw" THEN parsed
            ELSE IF \/ Falsy(parsed.value)
                    \/ TypeOf(parsed.value) # "object"
                    \/ Falsy(Member(parsed.value, "faceShape"))
                    \/ Falsy(Member(parsed.value, "hairstyles"))
            THEN Throw(NewError(MalformedResponseMsg, "analyzeFaceShape"), JSUndefined)
            ELSE Return(parsed.value)

\* its catch block
analyzeCatchV2(thrown) ==
    IF thrown.isError /\ Includes(thrown.message, ValidationMarker)
    THEN Throw(thrown, JSUndefined)
    ELSE Throw(NewError(AnalysisFailedMsg, "analyzeFaceShape"), JSUndefined)

analyzeFaceShapeV2(response) ==
    LET attempt == analyzeTryV2(response)
    IN IF attempt.kind = "throw" THEN analyzeCatchV2(attempt.thrown) ELSE attempt

\* generateHairstyleImage of the second version: its for loop, from part i on
RECURSIVE ScanPartsV2(_, _, _, _)
ScanPartsV2(parts, i, generatedImageUrl, generatedText) ==
    IF i > Len(parts)
    THEN [imageUrl |-> generatedImageUrl, text |-> generatedText]
    ELSE IF parts[i].inlineData # Null
    THEN ScanPartsV2(parts, i + 1,
                     "data:" \o parts[i].inlineData[1].mimeType \o ";base64,"
                         \o parts[i].inlineData[1].data,
                     generatedText)
    ELSE IF parts[i].text # Null /\ parts[i].text[1] # ""
    THEN ScanPartsV2(parts, i + 1, generatedImageUrl, parts[i].text[1])
    ELSE ScanPartsV2(parts, i + 1, generatedImageUrl, generatedText)

\* its try block
generateTryV2(response) ==
    IF response.kind = "rejects" THEN Throw(response.thrown, NoImageResult)
    ELSE IF response.blockReason # Null /\ response.blockReason[1] # ""
    THEN Throw(NewError(BlockedMessage(response.blockReason[1]), "generateHairstyleImage"),
               NoImageResult)
    ELSE IF response.candidates # Null /\ Len(response.candidates[1]) > 0
            /\ response.candidates[1][1].content = Null
    THEN Throw(NewError(TypeErrorMsg, "runtime"), NoImageResult)
    ELSE LET scanned ==
                IF response.candidates # Null /\ Len(response.candidates[1]) > 0
                THEN ScanPartsV2(response.candidates[1][1].content[1], 1, "", DefaultCaption)
                ELSE [imageUrl |-> "", text |-> DefaultCaption]
         IN IF scanned.imageUrl = ""
            THEN Throw(NewError(NoImageMsg, "generateHairstyleImage"), NoImageResult)
            ELSE Return(scanned)

\* as generateCatchV2, wrapping every thrown value
generateCatchV2WrapsAll(thrown) ==
    Throw(NewError(GenerationFailedMsg, "generateHairstyleImage"), NoImageResult)

\* its catch block
generateCatchV2(thrown) ==
    IF thrown.isError
    THEN Throw(thrown, NoImageResult)
    ELSE Throw(NewError(GenerationFailedMsg, "generateHairstyleImage"), NoImageResult)

generateHairstyleImageV2(response) ==
    LET attempt == generateTryV2(response)
    IN IF attempt.kind = "throw" THEN generateCatchV2(attempt.thrown) ELSE attempt

\* the two versions of the module
Versions == {"first", "second"}

\* ------------------------------------------- a service call taken alone
appVars == << appState, originalImage, analysisResult, haircutPreference,
              generatedImages, error, showCamera, reads, analyzeCalls, calls, runs,
              uploads, analyzed, selected, lastOp >>

\* analyzeFaceShape (one of its two versions) is called and generateContent
\* answers with response
callAnalyzeFaceShape(version, response) ==
    /\ service.fn = "none"
    /\ service' = [fn |-> "analyzeFaceShape", version |-> version,
                   response |-> response, outcome |-> Null]
    /\ UNCHANGED appVars

\* analyzeFaceShape returns or throws
analyzeFaceShapeSettles ==
    /\ service.fn = "analyzeFaceShape"
    /\ service.outcome = Null
    /\ service' = [service EXCEPT !.outcome =
                        Some(IF service.version = "first"
                             THEN analyzeFaceShape(service.response)
                             ELSE analyzeFaceShapeV2(service.response))]
    /\ UNCHANGED appVars

\* generateHairstyleImage (one of its two versions) is called with a
\* selectable preference and generateContent answers with response
callGenerateHairstyleImage(version, preference, response) ==
    /\ service.fn = "none"
    /\ service' = [fn |-> "generateHairstyleImage",
                   version |-> version,
                   preference |-> preference,
                   prompt |-> IF version = "first" THEN Prompt(preference)
                                                   ELSE PromptV2(preference),
                   response |-> response,
                   outcome |-> Null,
                   slot |-> PendingSlot]
    /\ UNCHANGED appVars

\* generateHairstyleImage returns or throws, and the .then or .catch callback
\* of handlePreferenceSelect computes the slot
generateHairstyleImageSettles ==
    /\ service.fn = "generateHairstyleImage"
    /\ service.outcome = Null
    /\ LET outcome == IF service.version = "first"
                      THEN generateHairstyleImage(service.response)
                      ELSE generateHairstyleImageV2(service.response)
       IN service' = [service EXCEPT
                        !.outcome = Some(outcome),
                        !.slot = IF outcome.kind = "return"
                                 THEN ResolvedSlot(outcome.value.imageUrl)
                                 ELSE RejectedSlot(outcome.thrown.message)]
    /\ UNCHANGED appVars

\* the caller has taken the result
serviceCallOver ==
    /\ service.fn # "none"
    /\ service.outcome # Null
    /\ service' = ServiceIdle
    /\ UNCHANGED appVars

ServiceNext ==
    \/ \E version \in Versions, response \in AnalysisResponses :
          callAnalyzeFaceShape(version, response)
    \/ analyzeFaceShapeSettles
    \/ \E version \in Versions, preference \in haircutPreferences,
          response \in GenerationResponses :
            callGenerateHairstyleImage(version, preference, response)
    \/ generateHairstyleImageSettles
    \/ serviceCallOver

ServiceSpec == Init /\ [][ServiceNext]_vars

\* ------------------------------------------------------------ properties
TypeOK ==
    /\ appState \in AppState
    /\ originalImage \in 0..uploads
    /\ haircutPreference \in haircutPreferences \cup {NullStr}
    /\ showCamera \in BOOLEAN
    /\ reads \subseteq 1..uploads
    /\ analyzed <= uploads
    /\ uploads + analyzed + selected <= MaxEvents
    /\ DOMAIN runs \subseteq 1..selected
    /\ \A c \in calls : c.run \in DOMAIN runs /\ runs[c.run].promises[c.idx] = "pending"
    /\ appState = IMAGE_UPLOADED => originalImage # NoImage

\* the step settles the generation call c (its .then or .catch callback runs)
SettlesCall(c) == c \in calls /\ c \notin calls'

\* the step is the continuation of run r's Promise.allSettled
JoinsRun(r) == r \in DOMAIN runs /\ r \notin DOMAIN runs'

\* C1: after handleReset ran while GENERATING, the settlement of a generation
\* call issued before that reset changes neither the outcome mapping nor
\* appState, and the completion of the abandoned run does not change appState.
C1_AbandonedRunChangesNothing ==
    [][ /\ \A c \in calls :
            SettlesCall(c) /\ runs[c.run].resetIn = GENERATING
                => generatedImages' = generatedImages /\ appState' = appState
        /\ \A r \in DOMAIN runs :
            JoinsRun(r) /\ runs[r].resetIn = GENERATING => appState' = appState ]_vars

\* C2: appState = COMPLETE implies that no entry of generatedImages is loading.
C2_CompleteMeansAllSettled ==
    appState = COMPLETE => \A n \in DOMAIN generatedImages : ~generatedImages[n].loading

\* C3: an accepted preference selection issues exactly one call per element of
\* analysisResult.hairstyles, carrying the stored image, the analysis's
\* originalHairLength, the selected preference and that element's name; no
\* other step issues a call.
C3_OneCallPerHairstyle ==
    [][ IF selected' # selected
        THEN LET new == calls' \ calls
                 analysis == analysisResult[1]
             IN /\ calls \subseteq calls'
                /\ Cardinality(new) = Len(analysis.hairstyles)
                /\ \A i \in DOMAIN analysis.hairstyles :
                     \E c \in new :
                        /\ c.run = selected' /\ c.idx = i
                        /\ c.image = originalImage /\ originalImage # NoImage
                        /\ c.hairstyleName = analysis.hairstyles[i]
                        /\ c.originalHairLength = analysis.originalHairLength
                        /\ c.preference = haircutPreference'
        ELSE calls' \subseteq calls ]_vars

\* a selection has just issued two calls
C3_Witness ==
    /\ lastOp = "handlePreferenceSelect"
    /\ Cardinality({c \in calls : c.run = selected}) = 2
    /\ \A c \in calls : c.run = selected => c.preference = haircutPreference

\* the slot of hairstyle i of a run shows the outcome of call i of that run
SlotShowsOutcome(run, i) ==
    /\ run.names[i] \in DOMAIN generatedImages
    /\ LET slot == generatedImages[run.names[i]]
       IN /\ ~slot.loading
          /\ run.promises[i] = "fulfilled" => slot.url # Null /\ slot.error = NullStr
          /\ run.promises[i] = "rejected" => slot.url = Null /\ slot.error # NullStr

\* C4: once all calls of a run that no reset and no later selection
\* interrupted have settled, each hairstyle's slot holds a url and no error
\* exactly when its own call succeeded, and an error and no url exactly when
\* its own call failed.
C4_SlotsShowOwnOutcomes ==
    \A r \in DOMAIN runs :
        JoinReady(r) /\ runs[r].resetIn = "" /\ r = selected
            => \A i \in DOMAIN runs[r].names : SlotShowsOutcome(runs[r], i)

\* C5: once a different preference has been selected while the calls of an
\* earlier selection are in flight (no reset in between), the settlement of a
\* call of the earlier selection leaves the outcome mapping as it is.
C5_FirstBatchDiscarded ==
    [][ \A c \in calls :
            /\ SettlesCall(c)
            /\ c.run < selected
            /\ runs[c.run].resetIn = ""
            /\ haircutPreference # NullStr
            /\ c.preference # haircutPreference
            => generatedImages' = generatedImages ]_vars

\* C6: a call of the current run (no reset since it was issued) only ever
\* writes a slot that is still pending, so every slot is written at most once
\* after its initialisation.
C6_SlotWrittenOnce ==
    [][ \A c \in calls :
            /\ SettlesCall(c)
            /\ c.run = selected
            /\ runs[c.run].resetIn = ""
            => /\ c.hairstyleName \in DOMAIN generatedImages
               /\ generatedImages[c.hairstyleName].loading ]_vars

\* the changes of appState the workflow allows
AllowedChange(from, to) ==
    \/ to = INITIAL
    \/ from = INITIAL /\ to \in {IMAGE_UPLOADED, ERROR}
    \/ from = IMAGE_UPLOADED /\ to = ANALYZING
    \/ from = ANALYZING /\ to \in {ANALYZED, ERROR}
    \/ from \in {ANALYZED, COMPLETE} /\ to = GENERATING
    \/ from = GENERATING /\ to = COMPLETE

\* C7: every change of appState is one of the allowed changes.
C7_OnlyAllowedChanges ==
    [][ appState' # appState => AllowedChange(appState, appState') ]_vars

\* C8: handleReset (alone or as the first statement of processFile) leaves
\* INITIAL with image, analysis, preference and error null and no outcomes.
C8_ResetClearsEverything ==
    lastOp \in {"handleReset", "processFile"} =>
        /\ appState = INITIAL
        /\ originalImage = NoImage
        /\ analysisResult = Null
        /\ haircutPreference = NullStr
        /\ error = NullStr
        /\ DOMAIN generatedImages = {}

\* handleReset has just run with generation calls in flight
C8_Witness ==
    /\ lastOp = "handleReset"
    /\ calls # {}
    /\ \E r \in DOMAIN runs : runs[r].resetIn = GENERATING

\* C9: when a file read completes, the state is IMAGE_UPLOADED with analysis,
\* preference and error null and no outcomes; when it fails, the state is
\* ERROR with a message and no image stored.
C9_UploadLeavesCleanState ==
    /\ lastOp = "processFileDone" =>
            /\ appState = IMAGE_UPLOADED
            /\ originalImage # NoImage
            /\ analysisResult = Null
            /\ haircutPreference = NullStr
            /\ error = NullStr
            /\ DOMAIN generatedImages = {}
    /\ lastOp = "processFileFailed" =>
            /\ appState = ERROR
            /\ error # NullStr
            /\ originalImage = NoImage

\* C10: handleAnalyzeClick with a stored image sets ANALYZING, clears error,
\* preference and outcomes and calls analyzeFaceShape on that image (with no
\* image it changes nothing); a successful call stores a result and sets
\* ANALYZED; a failed call sets ERROR and the failure's message, leaves
\* analysisResult as it was and issues no generation call.
C10_AnalyzeHandler ==
    [][ /\ lastOp' = "handleAnalyzeClick" /\ lastOp # lastOp' =>
            IF originalImage = NoImage
            THEN UNCHANGED << stateVars, analyzeCalls, calls >>
            ELSE /\ appState' = ANALYZING
                 /\ error' = NullStr
                 /\ haircutPreference' = NullStr
                 /\ DOMAIN generatedImages' = {}
                 /\ \E c \in analyzeCalls' \ analyzeCalls : c.image = originalImage
                 /\ UNCHANGED << originalImage, analysisResult, calls >>
        /\ \A c \in analyzeCalls : c \notin analyzeCalls' =>
            \/ /\ lastOp' = "analyzeDone"
               /\ appState' = ANALYZED
               /\ analysisResult' \in {Some(result) : result \in AnalysisResults}
               /\ UNCHANGED << error, calls >>
            \/ /\ lastOp' = "analyzeFailed"
               /\ appState' = ERROR
               /\ error' \in AnalysisErrors
               /\ UNCHANGED << analysisResult, calls, generatedImages >> ]_vars

\* an analysis call has just failed while an analysis result was stored
C10_Witness ==
    /\ lastOp = "analyzeFailed"
    /\ appState = ERROR
    /\ error = AnalysisFailedMsg
    /\ analysisResult # Null

\* C11: a preference selected in COMPLETE sets GENERATING and replaces the
\* outcome mapping by one pending slot per hairstyle of the stored analysis,
\* and while the run it starts is the latest one and no reset has run, no call
\* of an earlier selection writes into the mapping.
C11_ReselectReplacesMapping ==
    [][ /\ selected' # selected /\ appState = COMPLETE =>
            /\ appState' = GENERATING
            /\ DOMAIN generatedImages' = Range(analysisResult[1].hairstyles)
            /\ \A n \in DOMAIN generatedImages' : generatedImages'[n] = PendingSlot
        /\ \A c \in calls :
            /\ SettlesCall(c)
            /\ c.run < selected
            /\ selected \in DOMAIN runs
            /\ runs[selected].startedIn = COMPLETE
            /\ runs[selected].resetIn = ""
            => generatedImages' = generatedImages ]_vars

\* a call of analyzeFaceShape has ended; its response and how it ended
AnalysisSettled == service.fn = "analyzeFaceShape" /\ service.outcome # Null
GenerationSettled == service.fn = "generateHairstyleImage" /\ service.outcome # Null

\* C12: every result analyzeFaceShape returns has a non-empty hairstyles
\* array.
C12_HairstylesNonEmpty ==
    AnalysisSettled /\ service.outcome[1].kind = "return" =>
        LET hairstyles == Member(service.outcome[1].value, "hairstyles")
        IN hairstyles.type = "array" /\ Len(hairstyles.items) > 0

\* C13: when the raw response text is absent, empty, whitespace only or the
\* null literal in any letter case with whitespace around it, analyzeFaceShape
\* throws the empty-response error and returns nothing.
C13_EmptyResponseError ==
    /\ AnalysisSettled
    /\ service.response.kind = "resolves"
    /\ service.response.text = Null \/ service.response.text[1] \in EmptyTexts
    => /\ service.outcome[1].kind = "throw"
       /\ service.outcome[1].thrown = NewError(EmptyResponseMsg, "analyzeFaceShape")

\* the null literal in capitals, padded, has been answered
C13_Witness ==
    /\ AnalysisSettled
    /\ service.response.text = Some(" Null\n")
    /\ service.outcome[1].thrown.message = EmptyResponseMsg

\* the decoded value is an object whose key holds a value that counts
\* (is not empty, null, 0 or false)
HasField(v, key) ==
    /\ v.type = "object"
    /\ \E i \in DOMAIN v.fields : v.fields[i][1] = key /\ ~Falsy(v.fields[i][2])

C15_OtherFailuresWrapped ==
    AnalysisSettled =>
        /\ \/ service.response.kind = "rejects"
           \/ service.response.text # Null /\ service.response.text[1] \in UndecodableTexts
           => /\ service.outcome[1].kind = "throw"
              /\ service.outcome[1].thrown = NewError(AnalysisFailedMsg, "analyzeFaceShape")
        /\ service.outcome[1].kind = "throw" =>
              service.outcome[1].thrown.message
                  \in {EmptyResponseMsg, MalformedResponseMsg, AnalysisFailedMsg}

\* C16: every preference the orchestrator can pass is a member of the
\* HaircutPreference type and has a definition in the prompt that either
\* version of generateHairstyleImage builds for it.
C16_PreferencesDefined ==
    service.fn = "generateHairstyleImage" =>
        /\ service.preference \in HaircutPreference
        /\ service.preference \in service.prompt.defined

ReturnedParts(response) ==
    IF response.candidates = Null THEN {}
    ELSE UNION { IF response.candidates[1][i].content = Null THEN {}
                 ELSE Range(response.candidates[1][i].content[1])
                 : i \in DOMAIN response.candidates[1] }

\* C18: for an unblocked response, generateHairstyleImage returns an image
\* exactly when some returned part carries inline data and throws the
\* no-image error otherwise; the caption it returns is the text of a returned
\* text part when there is one and the default caption otherwise.
C18_ImageIffInlineData ==
    /\ GenerationSettled
    /\ service.response.kind = "resolves"
    /\ service.response.blockReason \in {Null, Some("")}
    => LET parts == ReturnedParts(service.response)
           texts == {part.text[1] : part \in {q \in parts : q.inlineData = Null
                                                            /\ q.text # Null
                                                            /\ q.text[1] # ""}}
           outcome == service.outcome[1]
       IN IF \E part \in parts : part.inlineData # Null
          THEN /\ outcome.kind = "return"
               /\ outcome.value.imageUrl # ""
               /\ IF texts = {} THEN outcome.value.text = DefaultCaption
                                 ELSE outcome.value.text \in texts
          ELSE /\ outcome.kind = "throw"
               /\ outcome.thrown = NewError(NoImageMsg, "generateHairstyleImage")

\* C19 as claimed: whatever a rejected service call throws reaches the caller
\* of generateHairstyleImage unchanged, and its message is what the
\* orchestrator stores in the slot.
C19_FailuresSurfaceUnchanged ==
    GenerationSettled /\ service.response.kind = "rejects" =>
        /\ service.outcome[1].kind = "throw"
        /\ service.outcome[1].thrown = service.response.thrown
        /\ service.slot.error = service.response.thrown.message

\* C19, amended: a thrown Error reaches the caller unchanged and the slot
\* stores its message, or 'Gagal membuat gambar.' when the message is empty; a
\* thrown value that is not an Error reaches the caller as the generic
\* generation-failed error, whose message the slot stores.
C19_ErrorsSurfaceUnchanged ==
    GenerationSettled /\ service.response.kind = "rejects" =>
        LET thrown == service.response.thrown
        IN /\ service.outcome[1].kind = "throw"
           /\ service.slot.url = Null /\ ~service.slot.loading
           /\ IF thrown.isError
              THEN /\ service.outcome[1].thrown = thrown
                   /\ service.slot.error =
                        IF thrown.message = "" THEN DefaultGenErrorMsg ELSE thrown.message
              ELSE /\ service.outcome[1].thrown =
                        NewError(GenerationFailedMsg, "generateHairstyleImage")
                   /\ service.slot.error = GenerationFailedMsg

\* a transport failure has reached the slot with its own message
C19_Witness ==
    /\ GenerationSettled
    /\ service.response.kind = "rejects"
    /\ service.response.thrown = NewError("fetch failed", "service")
    /\ service.slot.error = "fetch failed"

\* C20, the run's calls all settle: if generation calls in flight keep
\* settling, every state with appState = GENERATING is followed by one with
\* appState = COMPLETE.
C20_SettledRunCompletes ==
    WF_vars(generationSettles) => (appState = GENERATING ~> appState = COMPLETE)

\* C20, a call of the run hangs: a step taken while appState = GENERATING that
\* is neither a reset nor an upload and leaves a call of the current run in
\* flight leaves appState = GENERATING.
C20_HungCallKeepsGenerating ==
    [][ /\ appState = GENERATING
        /\ \E c \in calls' : c.run = selected
        /\ lastOp' \notin {"handleReset", "processFile"}
        => appState' = GENERATING ]_vars

\* C21: a stored analysis belongs to the stored image. The step that stores an
\* analysis stores the result of a call made on the image stored then; no
\* step puts another image under a stored analysis; and a stored analysis is
\* never without a stored image.
C21_AnalysisBelongsToImage ==
    [][ /\ \A c \in analyzeCalls :
              c \notin analyzeCalls' /\ analysisResult' # Null =>
                  originalImage' # NoImage /\ originalImage' = c.image
        /\ originalImage' # originalImage => analysisResult' = Null
        /\ analysisResult' # Null => originalImage' # NoImage ]_vars

\* C22: a preference selection made with no stored image, with no stored
\* analysis or while GENERATING changes nothing and issues no call; and when
\* a selection is accepted, every generation call still in flight belongs to
\* a run that a reset has abandoned since.
C22_SelectGuardedOneRun ==
    [][ /\ selected' # selected => SelectAccepted
        /\ lastOp' = "handlePreferenceSelectIgnored" =>
              /\ ~SelectAccepted
              /\ UNCHANGED << appState, haircutPreference, generatedImages, calls >>
        /\ selected' # selected =>
              \A c \in calls : runs[c.run].resetIn # "" ]_vars

\* C23: the global error message is non-null exactly when appState = ERROR.
C23_ErrorIffErrorState ==
    (error # NullStr) <=> (appState = ERROR)

\* the three shapes of an entry of the outcome mapping
IsPending(slot) == slot.loading /\ slot.url = Null /\ slot.error = NullStr
IsSucceeded(slot) == ~slot.loading /\ slot.url # Null /\ slot.error = NullStr
IsFailed(slot) == ~slot.loading /\ slot.url = Null /\ slot.error # NullStr

\* C24: every entry of the outcome mapping is pending, succeeded or failed
\* (so none has both url and error), and a step that takes a resolved entry
\* back to pending is a selection and leaves every entry pending.
C24_SlotsWellFormed ==
    /\ \A n \in DOMAIN generatedImages :
          IsPending(generatedImages[n]) \/ IsSucceeded(generatedImages[n])
              \/ IsFailed(generatedImages[n])
    /\ [][ /\ \A n \in DOMAIN generatedImages' :
                 \/ IsPending(generatedImages'[n])
                 \/ IsSucceeded(generatedImages'[n])
                 \/ IsFailed(generatedImages'[n])
           /\ \A n \in DOMAIN generatedImages \cap DOMAIN generatedImages' :
                 ~generatedImages[n].loading /\ generatedImages'[n].loading =>
                     /\ selected' # selected
                     /\ \A m \in DOMAIN generatedImages' :
                           IsPending(generatedImages'[m]) ]_vars

\* a call of a run started in COMPLETE, over a mapping of resolved entries,
\* has just failed and its entry is a failed one
C24_Witness ==
    /\ lastOp = "generateFailed"
    /\ \E r \in DOMAIN runs : runs[r].startedIn = COMPLETE
    /\ \E n \in DOMAIN generatedImages : IsFailed(generatedImages[n])

\* C25: the two versions handle a response alike. Whatever generateContent
\* answers, the version called yields what the other version yields for the
\* same answer: the same analysis or error, the same image and caption or
\* error; the prompts differ.
C25_VersionsEquivalent ==
    /\ AnalysisSettled =>
          /\ service.outcome[1] = analyzeFaceShape(service.response)
          /\ service.outcome[1] = analyzeFaceShapeV2(service.response)
    /\ GenerationSettled =>
          /\ service.outcome[1] = generateHairstyleImage(service.response)
          /\ service.outcome[1] = generateHairstyleImageV2(service.response)
          /\ Prompt(service.preference) # PromptV2(service.preference)

\* the second version has rethrown the blocked error it threw itself
C25_Witness ==
    /\ GenerationSettled
    /\ service.version = "second"
    /\ service.response.kind = "resolves"
    /\ service.response.blockReason = Some("SAFETY")
    /\ service.outcome[1].kind = "throw"
    /\ service.outcome[1].thrown.message = BlockedMessage("SAFETY")

====
